---- MODULE Spec2Model ----
(***************************************************************************)
(* Model of ansible.playbook.task.Task (v2/ansible/playbook/task.py):      *)
(* legacy-syntax normalisation (munge), naming (get_name), conditional and *)
(* tag evaluation through the dependency chain, and the copy / serialize / *)
(* deserialize / set_loader contract over a small object heap.             *)
(***************************************************************************)
EXTENDS Integers, Sequences, FiniteSets, TLC

VARIABLES
    ds,         \* munge: the raw task mapping, an ordered sequence of <<key, value>>
    new_ds,     \* munge: the outcome, [status, map]; NotRun before the call
    ntask,      \* get_name: the task's role name, name, action and args
    nout,       \* get_name: the returned string, or NotRun
    etask,      \* evaluation: the task's dependency chain, block and own guard/tags
    ein,        \* evaluation: all_vars, only_tags, skip_tags
    eout,       \* evaluation: the result and the scopes consulted, or NotRun
    tasks,      \* heap: the Task objects, by identity
    dicts,      \* heap: the args dict objects (their key sets), by identity
    lists,      \* heap: the dependency-chain list objects, by identity
    blocks,     \* heap: the Block objects, by identity
    roles,      \* heap: the Role objects, by identity
    snap,       \* the mapping last returned by serialize(), and the task it came from
    last,       \* the operation that ran last, with its arguments and what it returned
    steps       \* how many heap operations have run

vars == <<ds, new_ds, ntask, nout, etask, ein, eout,
          tasks, dicts, lists, blocks, roles, snap, last, steps>>

pureVars == <<ds, new_ds, ntask, nout, etask, ein, eout>>
heapVars == <<tasks, dicts, lists, blocks, roles, snap, last, steps>>

NotRun == [status |-> "not_run"]

(***************************************************************************)
(* Values.  A string is a sequence of tokens (a token is an indivisible    *)
(* piece of text); None is a value distinct from every string.             *)
(***************************************************************************)
None == [kind |-> "none"]
Str(s) == [kind |-> "str", val |-> s]

(***************************************************************************)
(* munge                                                                   *)
(***************************************************************************)
MaxKeys == 3

\* names registered in lookup_loader (ansible.plugins), as token sequences
LookupLoader == {<<"items">>, <<"dict">>}

\* names registered in module_loader
ModuleLoader == {<<"debug">>}

MungeKeys ==
    { <<"action">>, <<"debug">>, <<"shell">>,
      <<"with_", "items">>, <<"with_", "dict">>, <<"with_", "bogus">>,
      <<"items">>, <<"loop">>, <<"register">> }

MungeValues == {None, Str(<<"v">>)}

\* the raw mappings: key/value pairs in iteration order, keys distinct
RawMappings ==
    UNION { { s \in [1..n -> MungeKeys \X MungeValues] :
                \A i, j \in 1..n : i # j => s[i][1] # s[j][1] } : n \in 0..MaxKeys }

KeysOf(m) == { m[i][1] : i \in 1..Len(m) }

\* a dict as built by the code: a function from its key set to the values
EmptyMap == [k \in {} |-> None]
Put(f, k, v) == [x \in (DOMAIN f) \cup {k} |-> IF x = k THEN v ELSE f[x]]
GetOrNone(f, k) == IF k \in DOMAIN f THEN f[k] ELSE None

\* ModuleArgsParser(task_ds=ds).parse(): the one action-specifying key of the
\* mapping decides (action, args, delegate_to); none or several is an error
ActionForms(m) ==
    { k \in KeysOf(m) : k \in {<<"action">>, <<"local_action">>, <<"shell">>} \/ k \in ModuleLoader }

ModuleArgsParse(m) ==
    IF Cardinality(ActionForms(m)) # 1
    THEN [status |-> "ActionError"]
    ELSE LET k == CHOOSE x \in ActionForms(m) : TRUE
             i == CHOOSE j \in 1..Len(m) : m[j][1] = k
         IN  [status      |-> "ok",
              action      |-> IF k \in ModuleLoader THEN k
                              ELSE IF k = <<"shell">> THEN <<"command">>
                              ELSE <<"debug">>,
              args        |-> m[i][2],
              delegate_to |-> IF k = <<"local_action">> THEN Str(<<"localhost">>) ELSE None]

\* k.replace("with_", ""): every occurrence of the text is removed, wherever it is
Replace(k) == SelectSeq(k, LAMBDA t : t # "with_")

\* Task._munge_loop
MungeLoop(new, k, v) ==
    LET loop_name == Replace(k) IN
    IF GetOrNone(new, <<"loop">>) # None
    THEN [status |-> "DuplicateLoop", map |-> new]
    ELSE [status |-> "ok",
          map |-> Put(Put(new, <<"loop">>, Str(loop_name)), <<"loop_args">>, v)]

\* the loop of Task.munge over ds.iteritems(), from position i on
RECURSIVE MungeFrom(_, _, _, _)
MungeFrom(m, i, action, new) ==
    IF i > Len(m) THEN [status |-> "ok", map |-> new]
    ELSE LET k == m[i][1]
             v == m[i][2]
         IN  IF \/ k \in {<<"action">>, <<"local_action">>, <<"args">>, <<"delegate_to">>}
                \/ k = action
                \/ k = <<"shell">>
             THEN MungeFrom(m, i + 1, action, new)
             ELSE IF Replace(k) \in LookupLoader
             THEN LET r == MungeLoop(new, k, v)
                  IN  IF r.status # "ok" THEN r ELSE MungeFrom(m, i + 1, action, r.map)
             ELSE MungeFrom(m, i + 1, action, Put(new, k, v))

\* Task.munge
MungeOf(m) ==
    LET p == ModuleArgsParse(m) IN
    IF p.status # "ok" THEN [status |-> p.status, map |-> EmptyMap]
    ELSE MungeFrom(m, 1, p.action,
                   Put(Put(Put(EmptyMap, <<"action">>, Str(p.action)),
                           <<"args">>, p.args),
                       <<"delegate_to">>, p.delegate_to))

Munge ==
    /\ new_ds = NotRun
    /\ new_ds' = MungeOf(ds)
    /\ ds' = ds

(***************************************************************************)
(* get_name                                                                *)
(***************************************************************************)
MaxArgs == 2

ArgKeys == {<<"k">>, <<"_", "p">>, <<"j">>}
ArgVals == {<<"v">>, <<"w", " ">>}

Dict(items) == [kind |-> "dict", items |-> items]

ArgsValues ==
    {None, Str(<<>>), Str(<<"x">>), Str(<<"x", " ">>)}
    \cup { Dict(s) : s \in UNION { { q \in [1..n -> ArgKeys \X ArgVals] :
                                       \A i, j \in 1..n : i # j => q[i][1] # q[j][1] }
                                   : n \in 0..MaxArgs } }

NameTasks ==
    [role   : {None, Str(<<"web">>)},
     name   : {None, Str(<<>>), Str(<<"n">>)},
     action : {Str(<<"debug">>)},
     args   : ArgsValues]

\* Python truthiness of an attribute holding None or a string
Truthy(x) == x # None /\ x.val # <<>>

IsSpace(t) == t = " "

\* str.strip(): leading and trailing whitespace removed
RECURSIVE LStrip(_)
LStrip(s) == IF s # <<>> /\ IsSpace(Head(s)) THEN LStrip(Tail(s)) ELSE s
RECURSIVE RStrip(_)
RStrip(s) == IF s # <<>> /\ IsSpace(s[Len(s)]) THEN RStrip(SubSeq(s, 1, Len(s) - 1)) ELSE s
Strip(s) == RStrip(LStrip(s))

\* "%s" of a value
Fmt(x) == IF x = None THEN <<"None">> ELSE x.val

\* the loop of Task._merge_kv over ds.iteritems(), from position i on
RECURSIVE MergeKvFrom(_, _, _)
MergeKvFrom(items, i, buf) ==
    IF i > Len(items) THEN buf
    ELSE IF items[i][1] # <<>> /\ items[i][1][1] = "_"
         THEN MergeKvFrom(items, i + 1, buf)
         ELSE MergeKvFrom(items, i + 1, buf \o items[i][1] \o <<"=">> \o items[i][2] \o <<" ">>)

\* _merge_kv as it would be without the final strip()
MergeKvNoStrip(a) ==
    IF a = None THEN <<>>
    ELSE IF a.kind = "str" THEN a.val
    ELSE MergeKvFrom(a.items, 1, <<>>)

\* Task._merge_kv
MergeKv(a) ==
    IF a = None THEN <<>>
    ELSE IF a.kind = "str" THEN a.val
    ELSE Strip(MergeKvFrom(a.items, 1, <<>>))

\* Role.get_name() of the task's role
RoleGetName(t) == t.role.val

\* Task.get_name
GetName(t) ==
    IF t.role # None /\ Truthy(t.name)
    THEN RoleGetName(t) \o <<" ", ":", " ">> \o t.name.val
    ELSE IF Truthy(t.name)
    THEN t.name.val
    ELSE LET flattened_args == MergeKv(t.args) IN
         IF t.role # None
         THEN RoleGetName(t) \o <<" ", ":", " ">> \o Fmt(t.action) \o <<" ">> \o flattened_args
         ELSE Fmt(t.action) \o <<" ">> \o flattened_args

CallGetName ==
    /\ nout = NotRun
    /\ nout' = [status |-> "ok", val |-> GetName(ntask)]
    /\ ntask' = ntask

(***************************************************************************)
(* evaluate_conditional / evaluate_tags                                    *)
(***************************************************************************)
MaxChain == 2

CondNames == {"a", "b"}
TagNames == {"t1", "t2"}

\* a scope (dependency-chain entry, block, or the task itself): its `when`
\* guard ("none" when it has none) and its tag set
Scope(w, tg) == [when |-> w, tags |-> tg]

SeqsUpTo(S, n) == UNION { [1..k -> S] : k \in 0..n }

CondScopes == { Scope(w, {}) : w \in {"none"} \cup CondNames }
TagScopes == { Scope("none", tg) : tg \in SUBSET TagNames }

NoBlock == [absent |-> TRUE]

EvalTasks(S) == [dep_chain : SeqsUpTo(S, MaxChain), block : {NoBlock} \cup S, own : S]

\* Conditional.evaluate_conditional of one scope: no guard, or a guard true in all_vars
CondHolds(sc, all_vars) == sc.when = "none" \/ sc.when \in all_vars

\* Taggable.evaluate_tags of one scope
TagsMatch(sc, only_tags, skip_tags) ==
    /\ sc.tags \cap skip_tags = {}
    /\ (sc.tags \cap only_tags # {} \/ "all" \in only_tags)

\* the loop of Task.evaluate_conditional over self._dep_chain, from entry i on:
\* the index of the first entry that is false (0 when none) and the entries consulted
RECURSIVE CondChainFrom(_, _, _, _)
CondChainFrom(chain, i, all_vars, seen) ==
    IF i > Len(chain) THEN [failed |-> FALSE, consulted |-> seen]
    ELSE IF ~CondHolds(chain[i], all_vars)
         THEN [failed |-> TRUE, consulted |-> Append(seen, <<"dep", i>>)]
         ELSE CondChainFrom(chain, i + 1, all_vars, Append(seen, <<"dep", i>>))

\* evaluate_conditional as it would be with the block's guard left out
EvaluateConditionalNoBlock(t, all_vars) ==
    LET c == CondChainFrom(t.dep_chain, 1, all_vars, <<>>) IN
    IF c.failed THEN [result |-> FALSE, consulted |-> c.consulted]
    ELSE [result |-> CondHolds(t.own, all_vars),
          consulted |-> c.consulted \o << <<"own", 0>> >>]

\* Task.evaluate_conditional
EvaluateConditional(t, all_vars) ==
    LET c == CondChainFrom(t.dep_chain, 1, all_vars, <<>>) IN
    IF c.failed THEN [result |-> FALSE, consulted |-> c.consulted]
    ELSE IF t.block # NoBlock /\ ~CondHolds(t.block, all_vars)
         THEN [result |-> FALSE, consulted |-> Append(c.consulted, <<"block", 0>>)]
         ELSE [result |-> CondHolds(t.own, all_vars),
               consulted |-> (IF t.block # NoBlock
                              THEN Append(c.consulted, <<"block", 0>>)
                              ELSE c.consulted) \o << <<"own", 0>> >>]

\* the loop of Task.evaluate_tags over self._dep_chain: result |= ...
RECURSIVE TagsChainFrom(_, _, _, _, _)
TagsChainFrom(chain, i, only_tags, skip_tags, result) ==
    IF i > Len(chain) THEN result
    ELSE TagsChainFrom(chain, i + 1, only_tags, skip_tags,
                       result \/ TagsMatch(chain[i], only_tags, skip_tags))

\* evaluate_tags as it would be with `result = ...` for `result |= ...` in the loop:
\* only the last dependency-chain entry counts
EvaluateTagsLastDep(t, only_tags, skip_tags) ==
    LET n  == Len(t.dep_chain)
        r1 == IF n = 0 THEN FALSE ELSE TagsMatch(t.dep_chain[n], only_tags, skip_tags)
        r2 == IF t.block # NoBlock
              THEN r1 \/ TagsMatch(t.block, only_tags, skip_tags)
              ELSE r1
    IN  r2 \/ TagsMatch(t.own, only_tags, skip_tags)

\* Task.evaluate_tags
EvaluateTags(t, only_tags, skip_tags) ==
    LET r1 == TagsChainFrom(t.dep_chain, 1, only_tags, skip_tags, FALSE)
        r2 == IF t.block # NoBlock
              THEN r1 \/ TagsMatch(t.block, only_tags, skip_tags)
              ELSE r1
    IN  r2 \/ TagsMatch(t.own, only_tags, skip_tags)

CallEvaluateConditional ==
    /\ eout = NotRun
    /\ LET r == EvaluateConditional(etask, ein.all_vars)
       IN  eout' = [status |-> "ok", op |-> "evaluate_conditional",
                    result |-> r.result, consulted |-> r.consulted]
    /\ UNCHANGED <<etask, ein>>

CallEvaluateTags ==
    /\ eout = NotRun
    /\ eout' = [status |-> "ok", op |-> "evaluate_tags",
                result |-> EvaluateTags(etask, ein.only_tags, ein.skip_tags),
                consulted |-> <<>>]
    /\ UNCHANGED <<etask, ein>>

(***************************************************************************)
(* The object heap: copy, serialize, deserialize, get_vars, set_loader     *)
(***************************************************************************)
MaxTasks == 2
MaxRoles == 2
MaxDeps == 2
MaxSteps == 6
MaxCopySteps == 5

TaskIds == 1..MaxTasks
\* the roles of the play; the Role built by the deserialize of task u is MaxRoles + u
PlayRoles == 1..MaxRoles
RoleIds == 1..(MaxRoles + MaxTasks)

\* the field attributes of Task, with those declared private=True
AttrNames == {"action", "args", "loop", "loop_args", "name", "tags", "when"}
PrivateAttrs == {"loop", "loop_args"}

NoObject == [live |-> FALSE]
NoSnap == [src |-> 0, data |-> EmptyMap]
Idle == [op |-> "none", t |-> 0, src |-> 0, exact |-> FALSE,
         hadBlock |-> FALSE, hadRole |-> FALSE, loader |-> "none", keys |-> {}]

Live(t) == tasks[t].live
FreeId(t) == ~Live(t) /\ \A i \in 1..(t - 1) : Live(i)

\* Base.__init__: every attribute takes a freshly built default; no loader yet
DefaultAttrs == [a \in AttrNames \ {"args"} |-> IF a = "action" THEN "debug" ELSE "none"]

\* Task.__init__ on the object t, with Base.__init__: an own empty dep chain
\* list and an own empty args dict
NewTask(t, b, r, ldr) ==
    [live |-> TRUE, attrs |-> DefaultAttrs, args |-> t, dep_chain |-> t,
     block |-> b, role |-> r, task_include |-> 0, loader |-> ldr,
     origin |-> "load", from |-> 0]

NewBlock(ldr) == [live |-> TRUE, when |-> "none", loader |-> ldr]

\* Task.load: a task of the play, inside a block or not, in a role or not, with
\* the loop shorthand or not, and the play's loader attached
Load(t, b, r, lp) ==
    /\ FreeId(t)
    /\ tasks' = [tasks EXCEPT ![t] =
                   [NewTask(t, IF b THEN t ELSE 0, r, "L0")
                      EXCEPT !.attrs = [DefaultAttrs EXCEPT !["loop"] = lp, !["loop_args"] = lp]]]
    /\ dicts' = [dicts EXCEPT ![t] = {}]
    /\ lists' = [lists EXCEPT ![t] = <<>>]
    /\ blocks' = IF b THEN [blocks EXCEPT ![t] = NewBlock("L0")] ELSE blocks
    /\ last' = [Idle EXCEPT !.op = "load", !.t = t]
    /\ UNCHANGED <<roles, snap>>

\* task.args[k] = ...
SetArg(t, k) ==
    /\ Live(t)
    /\ k \notin dicts[tasks[t].args]
    /\ dicts' = [dicts EXCEPT ![tasks[t].args] = @ \cup {k}]
    /\ last' = [Idle EXCEPT !.op = "set_arg", !.t = t]
    /\ UNCHANGED <<tasks, lists, blocks, roles, snap>>

\* task._dep_chain.append(role)
AppendDep(t, r) ==
    /\ Live(t)
    /\ Len(lists[tasks[t].dep_chain]) < MaxDeps
    /\ lists' = [lists EXCEPT ![tasks[t].dep_chain] = Append(@, r)]
    /\ last' = [Idle EXCEPT !.op = "append_dep", !.t = t]
    /\ UNCHANGED <<tasks, dicts, blocks, roles, snap>>

\* task._dep_chain.pop(0)
RemoveDep(t) ==
    /\ Live(t)
    /\ lists[tasks[t].dep_chain] # <<>>
    /\ lists' = [lists EXCEPT ![tasks[t].dep_chain] = Tail(@)]
    /\ last' = [Idle EXCEPT !.op = "remove_dep", !.t = t]
    /\ UNCHANGED <<tasks, dicts, blocks, roles, snap>>

\* task._block.when = ...
SetBlockWhen(t) ==
    /\ Live(t)
    /\ tasks[t].block # 0
    /\ blocks' = [blocks EXCEPT ![tasks[t].block].when = IF @ = "none" THEN "a" ELSE "none"]
    /\ last' = [Idle EXCEPT !.op = "set_block_when", !.t = t]
    /\ UNCHANGED <<tasks, dicts, lists, roles, snap>>

\* role.when = ... on a role of the play (an ancestor scope)
SetRoleWhen(r) ==
    /\ roles[r].when = "none"
    /\ roles' = [roles EXCEPT ![r].when = "a"]
    /\ last' = [Idle EXCEPT !.op = "set_role_when"]
    /\ UNCHANGED <<tasks, dicts, lists, blocks, snap>>

\* copy with `new_me._dep_chain = self._dep_chain`: the list object is shared
CopyDepChainAliased(t, c) == tasks[t].dep_chain

\* new_me._dep_chain = self._dep_chain[:] : the list object the copy c holds
CopyDepChain(t, c) == c

\* Block.copy(): a new Block with the same fields
BlockCopy(b) == blocks[b]

\* Task.copy, with Base.copy: the attributes and an own args dict with the same keys
Copy(t, c) ==
    /\ Live(t)
    /\ FreeId(c)
    /\ tasks' = [tasks EXCEPT ![c] =
                   [live |-> TRUE, attrs |-> tasks[t].attrs, args |-> c,
                    dep_chain |-> CopyDepChain(t, c),
                    block |-> IF tasks[t].block # 0 THEN c ELSE 0,
                    role |-> IF tasks[t].role # 0 THEN tasks[t].role ELSE 0,
                    task_include |-> 0,
                    loader |-> tasks[t].loader, origin |-> "copy", from |-> t]]
    /\ dicts' = [dicts EXCEPT ![c] = dicts[tasks[t].args]]
    /\ lists' = [lists EXCEPT ![c] = lists[tasks[t].dep_chain]]
    /\ blocks' = IF tasks[t].block # 0
                 THEN [blocks EXCEPT ![c] = BlockCopy(tasks[t].block)]
                 ELSE blocks
    /\ last' = [Idle EXCEPT !.op = "copy", !.t = c, !.src = t]
    /\ UNCHANGED <<roles, snap>>

\* Base.serialize: every field attribute, public and private, by value
BaseSerialize(t) ==
    [a \in AttrNames |-> IF a = "args" THEN dicts[tasks[t].args] ELSE tasks[t].attrs[a]]

\* Block.serialize / Role.serialize: the scope's own fields, without the loader
BlockSerialize(b) == [when |-> blocks[b].when]
RoleSerialize(r) == [when |-> roles[r].when]

\* Task.serialize: data['dep_chain'] is the task's own list object
SerializeTask(t) ==
    LET d0 == BaseSerialize(t)
        d1 == Put(d0, "dep_chain", [ref |-> tasks[t].dep_chain])
        d2 == IF tasks[t].block # 0
              THEN Put(d1, "block", BlockSerialize(tasks[t].block)) ELSE d1
    IN  IF tasks[t].role # 0 THEN Put(d2, "role", RoleSerialize(tasks[t].role)) ELSE d2

Serialize(t) ==
    /\ Live(t)
    /\ snap' = [src |-> t, data |-> SerializeTask(t)]
    /\ last' = [Idle EXCEPT !.op = "serialize", !.t = t]
    /\ UNCHANGED <<tasks, dicts, lists, blocks, roles>>

\* Task.get_vars
GetVars(t) ==
    LET all_vars == SerializeTask(t)
    IN  [k \in (DOMAIN all_vars) \ {"tags", "when"} |-> all_vars[k]]

CallGetVars(t) ==
    /\ Live(t)
    /\ last' = [Idle EXCEPT !.op = "get_vars", !.t = t, !.keys = DOMAIN GetVars(t)]
    /\ UNCHANGED <<tasks, dicts, lists, blocks, roles, snap>>

\* truthiness of a payload mapping: it has a key
PayloadTruthy(data, k) == k \in DOMAIN data /\ DOMAIN data[k] # {}

\* deserialize that leaves the fresh task's own empty list in place
DeserializeDepChainDropped(data, u) == u

\* self._dep_chain = data.get('dep_chain', []) : the list object u holds
DeserializeDepChain(data, u) ==
    IF "dep_chain" \in DOMAIN data THEN data["dep_chain"].ref ELSE u

\* Base.deserialize: each attribute from the mapping, or its default
BaseDeserialize(data) ==
    [a \in AttrNames \ {"args"} |-> IF a \in DOMAIN data THEN data[a] ELSE DefaultAttrs[a]]

\* u = Task(); u.deserialize(snap.data)
Deserialize(u) ==
    LET data == snap.data
        hasB == PayloadTruthy(data, "block")
        hasR == PayloadTruthy(data, "role")
    IN
    /\ snap.src # 0
    /\ FreeId(u)
    /\ tasks' = [tasks EXCEPT ![u] =
                   [NewTask(u, IF hasB THEN u ELSE 0, IF hasR THEN MaxRoles + u ELSE 0, "none")
                      EXCEPT !.attrs = BaseDeserialize(data),
                             !.dep_chain = DeserializeDepChain(data, u),
                             !.origin = "deserialize", !.from = snap.src]]
    /\ dicts' = [dicts EXCEPT ![u] = IF "args" \in DOMAIN data THEN data["args"] ELSE {}]
    /\ lists' = [lists EXCEPT ![u] = <<>>]
    /\ blocks' = IF hasB
                 THEN [blocks EXCEPT ![u] = [NewBlock("none") EXCEPT !.when = data["block"].when]]
                 ELSE blocks
    /\ roles' = IF hasR
                THEN [roles EXCEPT ![MaxRoles + u] =
                        [live |-> TRUE, when |-> data["role"].when, loader |-> "none"]]
                ELSE roles
    /\ snap' = [snap EXCEPT !.data =
                  [k \in (DOMAIN data) \ ((IF hasB THEN {"block"} ELSE {})
                                          \cup (IF hasR THEN {"role"} ELSE {})) |-> data[k]]]
    /\ last' = [Idle EXCEPT !.op = "deserialize", !.t = u, !.src = snap.src,
                            !.exact = (Live(snap.src) /\ data = SerializeTask(snap.src)),
                            !.hadBlock = ("block" \in DOMAIN data),
                            !.hadRole = ("role" \in DOMAIN data)]

Range(q) == { q[i] : i \in 1..Len(q) }

\* set_loader without the loop over the dependency chain
LoaderOnDepsSkipped(t, loader) == roles

\* for dep in self._dep_chain: dep.set_loader(loader)
LoaderOnDeps(t, loader) ==
    [r \in RoleIds |-> IF r \in Range(lists[tasks[t].dep_chain])
                       THEN [roles[r] EXCEPT !.loader = loader]
                       ELSE roles[r]]

\* Task.set_loader
SetLoader(t, loader) ==
    /\ Live(t)
    /\ tasks' = [tasks EXCEPT ![t].loader = loader]
    /\ blocks' = IF tasks[t].block # 0
                 THEN [blocks EXCEPT ![tasks[t].block].loader = loader]
                 ELSE blocks
    /\ roles' = LoaderOnDeps(t, loader)
    /\ last' = [Idle EXCEPT !.op = "set_loader", !.t = t, !.loader = loader]
    /\ UNCHANGED <<dicts, lists, snap>>

(***************************************************************************)
(* Specifications                                                          *)
(***************************************************************************)
NextMunge == Munge /\ UNCHANGED <<ntask, nout, etask, ein, eout>> /\ UNCHANGED heapVars

NextName == CallGetName /\ UNCHANGED <<ds, new_ds, etask, ein, eout>> /\ UNCHANGED heapVars

NextCond == CallEvaluateConditional /\ UNCHANGED <<ds, new_ds, ntask, nout>> /\ UNCHANGED heapVars

NextTags == CallEvaluateTags /\ UNCHANGED <<ds, new_ds, ntask, nout>> /\ UNCHANGED heapVars

InitMungeSpec ==
    /\ ds \in RawMappings /\ new_ds = NotRun
    /\ ntask = None /\ nout = NotRun
    /\ etask = None /\ ein = None /\ eout = NotRun
    /\ tasks = [t \in TaskIds |-> NoObject]
    /\ dicts = [t \in TaskIds |-> {}]
    /\ lists = [t \in TaskIds |-> <<>>]
    /\ blocks = [t \in TaskIds |-> NoObject]
    /\ roles = [r \in RoleIds |-> NoObject]
    /\ snap = NoSnap /\ last = Idle /\ steps = 0

InitNameSpec ==
    /\ ds = <<>> /\ new_ds = NotRun
    /\ ntask \in NameTasks /\ nout = NotRun
    /\ etask = None /\ ein = None /\ eout = NotRun
    /\ tasks = [t \in TaskIds |-> NoObject]
    /\ dicts = [t \in TaskIds |-> {}]
    /\ lists = [t \in TaskIds |-> <<>>]
    /\ blocks = [t \in TaskIds |-> NoObject]
    /\ roles = [r \in RoleIds |-> NoObject]
    /\ snap = NoSnap /\ last = Idle /\ steps = 0

InitCondSpec ==
    /\ ds = <<>> /\ new_ds = NotRun
    /\ ntask = None /\ nout = NotRun
    /\ etask \in EvalTasks(CondScopes)
    /\ ein \in [all_vars : SUBSET CondNames, only_tags : {{}}, skip_tags : {{}}]
    /\ eout = NotRun
    /\ tasks = [t \in TaskIds |-> NoObject]
    /\ dicts = [t \in TaskIds |-> {}]
    /\ lists = [t \in TaskIds |-> <<>>]
    /\ blocks = [t \in TaskIds |-> NoObject]
    /\ roles = [r \in RoleIds |-> NoObject]
    /\ snap = NoSnap /\ last = Idle /\ steps = 0

InitTagsSpec ==
    /\ ds = <<>> /\ new_ds = NotRun
    /\ ntask = None /\ nout = NotRun
    /\ etask \in EvalTasks(TagScopes)
    /\ ein \in [all_vars : {{}}, only_tags : SUBSET (TagNames \cup {"all"}),
                skip_tags : SUBSET TagNames]
    /\ eout = NotRun
    /\ tasks = [t \in TaskIds |-> NoObject]
    /\ dicts = [t \in TaskIds |-> {}]
    /\ lists = [t \in TaskIds |-> <<>>]
    /\ blocks = [t \in TaskIds |-> NoObject]
    /\ roles = [r \in RoleIds |-> NoObject]
    /\ snap = NoSnap /\ last = Idle /\ steps = 0

\* the play before any task is loaded: its roles exist, with the play's loader
InitHeap ==
    /\ ds = <<>> /\ new_ds = NotRun
    /\ ntask = None /\ nout = NotRun
    /\ etask = None /\ ein = None /\ eout = NotRun
    /\ tasks = [t \in TaskIds |-> NoObject]
    /\ dicts = [t \in TaskIds |-> {}]
    /\ lists = [t \in TaskIds |-> <<>>]
    /\ blocks = [t \in TaskIds |-> NoObject]
    /\ roles = [r \in RoleIds |-> IF r \in PlayRoles
                                  THEN [live |-> TRUE, when |-> "none", loader |-> "L0"]
                                  ELSE NoObject]
    /\ snap = NoSnap /\ last = Idle /\ steps = 0

\* one more heap operation, while the run is within its length
Step == steps < MaxSteps /\ steps' = steps + 1 /\ UNCHANGED pureVars
CopyStep == steps < MaxCopySteps /\ steps' = steps + 1 /\ UNCHANGED pureVars

\* the operations, over every object and argument of the model
LoadPlain ==
    /\ \E t \in TaskIds, b \in BOOLEAN, r \in {0} \cup PlayRoles : Load(t, b, r, "none")
    /\ CopyStep
LoadFirst ==
    /\ \E b \in BOOLEAN, r \in {0} \cup PlayRoles, lp \in {"none", "items"} : Load(1, b, r, lp)
    /\ Step
AppendDepAny == (\E t \in TaskIds, r \in PlayRoles : AppendDep(t, r)) /\ Step
AppendDepCopy == (\E t \in TaskIds, r \in PlayRoles : AppendDep(t, r)) /\ CopyStep
RemoveDepAny == (\E t \in TaskIds : RemoveDep(t)) /\ CopyStep
SetArgAny == (\E t \in TaskIds : SetArg(t, "k")) /\ CopyStep
SetBlockWhenAny == (\E t \in TaskIds : SetBlockWhen(t)) /\ CopyStep
SetRoleWhenAny == (\E r \in PlayRoles : SetRoleWhen(r)) /\ Step
CopyAny == (\E t, c \in TaskIds : Copy(t, c)) /\ CopyStep
SerializeAny == (\E t \in TaskIds : Serialize(t)) /\ Step
DeserializeAny == (\E u \in TaskIds : Deserialize(u)) /\ Step
SetLoaderAny == (\E t \in TaskIds : SetLoader(t, "L1")) /\ Step
GetVarsAny == (\E t \in TaskIds : CallGetVars(t)) /\ Step

\* one task of the play is serialized, rebuilt and given a loader
NextWire ==
    \/ LoadFirst
    \/ AppendDepAny
    \/ SetRoleWhenAny
    \/ SerializeAny
    \/ DeserializeAny
    \/ SetLoaderAny
    \/ GetVarsAny

\* tasks are loaded, copied and changed in place
NextCopy ==
    \/ LoadPlain
    \/ AppendDepCopy
    \/ RemoveDepAny
    \/ SetArgAny
    \/ SetBlockWhenAny
    \/ CopyAny

SpecMunge == InitMungeSpec /\ [][NextMunge]_vars
SpecName == InitNameSpec /\ [][NextName]_vars
SpecCond == InitCondSpec /\ [][NextCond]_vars
SpecTags == InitTagsSpec /\ [][NextTags]_vars
SpecWire == InitHeap /\ [][NextWire]_vars
SpecCopy == InitHeap /\ [][NextCopy]_vars

(***************************************************************************)
(* Properties                                                              *)
(***************************************************************************)

\* the scopes of a task in the order evaluate_conditional is to consult them
ScopeOrder(t) ==
    [i \in 1..Len(t.dep_chain) |-> [label |-> <<"dep", i>>, sc |-> t.dep_chain[i]]]
    \o (IF t.block # NoBlock THEN <<[label |-> <<"block", 0>>, sc |-> t.block]>> ELSE <<>>)
    \o <<[label |-> <<"own", 0>>, sc |-> t.own]>>

\* how many scopes are to be consulted: up to and including the first false one
StopAt(order, all_vars) ==
    IF \E i \in 1..Len(order) : ~CondHolds(order[i].sc, all_vars)
    THEN CHOOSE i \in 1..Len(order) :
            /\ ~CondHolds(order[i].sc, all_vars)
            /\ \A j \in 1..(i - 1) : CondHolds(order[j].sc, all_vars)
    ELSE Len(order)

\* C1: evaluate_conditional is true iff every dependency-chain entry, the block
\* (when present) and the task's own guard are true; the scopes are consulted
\* chain left to right, then block, then own guard, and none after the first false.
C1_ConditionalIsConjunctive ==
    (eout.status = "ok" /\ eout.op = "evaluate_conditional") =>
        LET order == ScopeOrder(etask)
            n     == StopAt(order, ein.all_vars)
        IN  /\ eout.result = (\A i \in 1..Len(order) : CondHolds(order[i].sc, ein.all_vars))
            /\ eout.consulted = [i \in 1..n |-> order[i].label]

\* C1 witness: a two-entry chain whose first entry passes, a block whose guard is
\* false and an own guard that is true: the result is false and own is not consulted
C1_Witness ==
    /\ eout.status = "ok" /\ eout.op = "evaluate_conditional"
    /\ Len(etask.dep_chain) = 2
    /\ etask.block # NoBlock
    /\ ~CondHolds(etask.block, ein.all_vars)
    /\ CondHolds(etask.own, ein.all_vars)
    /\ eout.result = FALSE
    /\ Len(eout.consulted) = 3

\* C2: evaluate_tags is true iff some dependency-chain entry, the block (when
\* present) or the task's own tag set matches the selection; with an empty chain
\* and no block it is the task's own match.
C2_TagsAreDisjunctive ==
    (eout.status = "ok" /\ eout.op = "evaluate_tags") =>
        LET M(sc) == TagsMatch(sc, ein.only_tags, ein.skip_tags) IN
        /\ eout.result = ( \/ \E i \in 1..Len(etask.dep_chain) : M(etask.dep_chain[i])
                           \/ (etask.block # NoBlock /\ M(etask.block))
                           \/ M(etask.own) )
        /\ (etask.dep_chain = <<>> /\ etask.block = NoBlock) => (eout.result = M(etask.own))

\* C2 witness: only the first of two chain entries matches; the second entry, the
\* block and the task's own tags do not, and the task is selected
C2_Witness ==
    /\ eout.status = "ok" /\ eout.op = "evaluate_tags"
    /\ Len(etask.dep_chain) = 2
    /\ TagsMatch(etask.dep_chain[1], ein.only_tags, ein.skip_tags)
    /\ ~TagsMatch(etask.dep_chain[2], ein.only_tags, ein.skip_tags)
    /\ etask.block # NoBlock
    /\ ~TagsMatch(etask.block, ein.only_tags, ein.skip_tags)
    /\ ~TagsMatch(etask.own, ein.only_tags, ein.skip_tags)
    /\ eout.result = TRUE

\* a recognized loop key: with_<name>, <name> registered in the lookup-plugin registry
IsLoopKey(k) == Len(k) >= 2 /\ k[1] = "with_" /\ Tail(k) \in LookupLoader
LoopKeys(m) == { k \in KeysOf(m) : IsLoopKey(k) }
RawValue(m, k) == m[CHOOSE i \in 1..Len(m) : m[i][1] = k][2]

\* C7: with a resolvable action, munge fails with the duplicate-loop error whenever
\* two or more recognized loop keys are present, and succeeds with loop=<name>,
\* loop_args=<value> when exactly one is.
C7_DuplicateLoopRule ==
    (new_ds.status # "not_run" /\ ModuleArgsParse(ds).status = "ok") =>
        /\ Cardinality(LoopKeys(ds)) >= 2 => new_ds.status = "DuplicateLoop"
        /\ Cardinality(LoopKeys(ds)) = 1 =>
              LET k == CHOOSE x \in LoopKeys(ds) : TRUE IN
              /\ new_ds.status = "ok"
              /\ GetOrNone(new_ds.map, <<"loop">>) = Str(Tail(k))
              /\ GetOrNone(new_ds.map, <<"loop_args">>) = RawValue(ds, k)

\* the keys the argument classifier consumes
ActionKeys(m) ==
    {<<"action">>, <<"local_action">>, <<"args">>, <<"delegate_to">>, <<"shell">>}
    \cup ActionForms(m)

\* C8: a successful munge converts only recognized loop keys; every other key that
\* is not action-specifying is in the canonical mapping with its own value.
C8_OnlyLoopKeysConverted ==
    new_ds.status = "ok" =>
        \A k \in KeysOf(ds) :
            (~IsLoopKey(k) /\ k \notin ActionKeys(ds)) =>
                (k \in DOMAIN new_ds.map /\ new_ds.map[k] = RawValue(ds, k))

\* key=value of the pairs whose key does not start with '_', single spaces between
VisiblePairs(items) == SelectSeq(items, LAMBDA q : ~(q[1] # <<>> /\ Head(q[1]) = "_"))
RECURSIVE JoinPairs(_)
JoinPairs(pairs) ==
    IF pairs = <<>> THEN <<>>
    ELSE IF Len(pairs) = 1 THEN pairs[1][1] \o <<"=">> \o pairs[1][2]
    ELSE pairs[1][1] \o <<"=">> \o pairs[1][2] \o <<" ">> \o JoinPairs(Tail(pairs))

Flattened(a) ==
    IF a = None THEN <<>>
    ELSE IF a.kind = "str" THEN a.val
    ELSE Strip(JoinPairs(VisiblePairs(a.items)))

\* C10 as stated: "<role>: <name>", "<name>", "<role>: <action> <flattened-args>",
\* "<action> <flattened-args>" in that priority, the result trimmed.
C10_NameAsStated ==
    nout.status = "ok" =>
        nout.val =
            IF ntask.role # None /\ Truthy(ntask.name)
            THEN ntask.role.val \o <<":", " ">> \o ntask.name.val
            ELSE IF Truthy(ntask.name) THEN ntask.name.val
            ELSE IF ntask.role # None
            THEN Strip(ntask.role.val \o <<":", " ">> \o Fmt(ntask.action) \o <<" ">>
                       \o Flattened(ntask.args))
            ELSE Strip(Fmt(ntask.action) \o <<" ">> \o Flattened(ntask.args))

\* C10 amended: the role separator is " : " and only flattened-args is trimmed, so
\* the result keeps the space after the action when flattened-args is empty.
C10_NameFormat ==
    nout.status = "ok" =>
        nout.val =
            IF ntask.role # None /\ Truthy(ntask.name)
            THEN ntask.role.val \o <<" ", ":", " ">> \o ntask.name.val
            ELSE IF Truthy(ntask.name) THEN ntask.name.val
            ELSE IF ntask.role # None
            THEN ntask.role.val \o <<" ", ":", " ">> \o Fmt(ntask.action) \o <<" ">>
                 \o Flattened(ntask.args)
            ELSE Fmt(ntask.action) \o <<" ">> \o Flattened(ntask.args)

\* C10 witness: a role, no name, and a mapping whose one '_' key is skipped and
\* whose printed value ends in a space that the trim removes
C10_Witness ==
    /\ nout.status = "ok"
    /\ ntask.role # None
    /\ ~Truthy(ntask.name)
    /\ ntask.args # None
    /\ ntask.args.kind = "dict"
    /\ Len(ntask.args.items) = 2
    /\ Len(VisiblePairs(ntask.args.items)) = 1
    /\ nout.val = <<"web", " ", ":", " ", "debug", " ", "k", "=", "w">>

\* what a task's references lead to
ArgsOf(t) == dicts[tasks[t].args]
ChainOf(t) == lists[tasks[t].dep_chain]
BlockOf(t) == IF tasks[t].block = 0 THEN NoObject ELSE blocks[tasks[t].block]

\* a mapping with its dep_chain list read out: the entries, in order
Resolve(data) ==
    [k \in DOMAIN data |-> IF k = "dep_chain" THEN lists[data[k].ref] ELSE data[k]]

\* a mapping with its dep_chain list and the scopes in it read out
DeepResolve(data) ==
    [k \in DOMAIN data |->
        IF k = "dep_chain"
        THEN [i \in 1..Len(lists[data[k].ref]) |-> roles[lists[data[k].ref][i]]]
        ELSE data[k]]

\* C3: a fresh task u deserialized from serialize(t) has the get_vars() of t and
\* block and role payloads equal to those of t; a mapping without a 'block'
\* ('role') key leaves u without a block (role).
C3_RoundTrip ==
    last.op = "deserialize" =>
        LET u == last.t
            t == last.src
        IN  /\ last.exact =>
                  /\ Resolve(GetVars(u)) = Resolve(GetVars(t))
                  /\ (tasks[t].block # 0) = (tasks[u].block # 0)
                  /\ (tasks[t].role # 0) = (tasks[u].role # 0)
                  /\ tasks[t].block # 0 =>
                        BlockSerialize(tasks[u].block) = BlockSerialize(tasks[t].block)
                  /\ tasks[t].role # 0 =>
                        RoleSerialize(tasks[u].role) = RoleSerialize(tasks[t].role)
            /\ ~last.hadBlock => tasks[u].block = 0
            /\ ~last.hadRole => tasks[u].role = 0

\* C3 witness: the round trip of a task with a block, a role, the loop shorthand
\* and a dependency chain of two different entries
C3_Witness ==
    /\ last.op = "deserialize"
    /\ last.exact
    /\ tasks[last.src].block # 0
    /\ tasks[last.src].role # 0
    /\ tasks[last.src].attrs["loop"] = "items"
    /\ Len(ChainOf(last.src)) = 2
    /\ ChainOf(last.src)[1] # ChainOf(last.src)[2]
    /\ tasks[last.t].role # tasks[last.src].role

\* C4: what a mapping returned by serialize() holds does not change when the
\* parent afterwards changes the task's dependency chain or an ancestor scope.
C4_SnapshotSelfContained ==
    [][(snap.src # 0 /\ snap' = snap) => DeepResolve(snap.data)' = DeepResolve(snap.data)]_vars

\* C5: after set_loader(L) the task, its block and every dependency-chain entry
\* hold L; a task just deserialized, and its block, hold no loader.
C5_LoaderReattached ==
    /\ last.op = "set_loader" =>
          /\ tasks[last.t].loader = last.loader
          /\ tasks[last.t].block # 0 => BlockOf(last.t).loader = last.loader
          /\ \A i \in 1..Len(ChainOf(last.t)) : roles[ChainOf(last.t)[i]].loader = last.loader
    /\ last.op = "deserialize" =>
          /\ tasks[last.t].loader = "none"
          /\ tasks[last.t].block # 0 => BlockOf(last.t).loader = "none"

\* C5 witness: set_loader on a deserialized task with a block and a chain of two
\* different entries
C5_Witness ==
    /\ last.op = "set_loader"
    /\ tasks[last.t].origin = "deserialize"
    /\ tasks[last.t].block # 0
    /\ Len(ChainOf(last.t)) = 2
    /\ ChainOf(last.t)[1] # ChainOf(last.t)[2]
    /\ tasks[last.t].loader = "L1"

C9_PrivateFieldsHidden ==
    last.op = "get_vars" =>
        /\ last.keys \cap ({"tags", "when"} \cup PrivateAttrs) = {}
        /\ AttrNames \subseteq DOMAIN SerializeTask(last.t)

====
